---- MODULE Spec2Model ----
(***************************************************************************)
(* Model of the Cloud Gateway engine (services/core-engine/src/main.rs).   *)
(*                                                                         *)
(* The process state is AppState.stats, four u64 counters behind one       *)
(* std::sync::Mutex.  Seven axum handlers run concurrently, one task per   *)
(* request.  A handler body has no .await in it, so between the end of the *)
(* extractors and the response the only scheduling points are the mutex    *)
(* operations; each handler is modelled as the sequence of its mutex-      *)
(* delimited steps.  A request can be dropped (client gone) only while the *)
(* extractors are still pending, that is before its handler body starts.   *)
(*                                                                         *)
(* Option<T> is modelled as a sequence of length <= 1: << >> is None and   *)
(* <<x>> is Some(x).  f64 latencies are whole numbers in the source and    *)
(* are kept as integers.  The u64 counters are unbounded naturals here:    *)
(* the number of mutating calls is capped by MaxOps, far from 2^64.        *)
(***************************************************************************)
EXTENDS Integers, Sequences, FiniteSets, TLC

\* ------------------------------------------------------------- bounds
NumReqs == 2        \* request tasks in flight at once
MaxOps == 2         \* cap on connect + sync + transform calls admitted
MaxDevices == 3     \* longest device list of a mesh request

Reqs == 1..NumReqs
DeviceIds == {"A", "B", "C"}
Uuids == {"u1", "u2"}

\* ------------------------------------------------------------- constants
SyncBytes == 4096
ObjectsSynced == 12
BaseLatency == 15
LatencyStep == 5

DefaultProtocol == "sdf-stream"
DefaultRegion == "us-east-1"
DefaultTopology == "full-mesh"
EndpointPrefix == "wss://gateway.alice-platform.com/"

\* protocols(): the registered protocol names, in order
protocols_list == <<"sdf-stream", "mqtt-bridge", "grpc-relay">>
ProtocolNames == {protocols_list[i] : i \in 1..Len(protocols_list)}

\* names a client may send, registered or not
RequestProtocols == {"grpc-relay", "coap"}
RequestTopologies == {<< >>, <<"full-mesh">>, <<"ring">>, <<"star">>, <<"line">>}

\* Option::unwrap_or_else
unwrap_or_else(opt, default) == IF opt = << >> THEN default ELSE opt[1]

\* ------------------------------------------------------------- state
VARIABLES
    stats,          \* AppState.stats: the four counters
    lock,           \* holder of the Mutex<Stats>: 0 when free, else a request
    pc,             \* position of each request task
    kind,           \* route of each request task
    args,           \* deserialized request body of each task
    resp,           \* response built by each task
    issued,         \* connection_ids returned to clients so far
    connects_done   \* number of connect calls that have returned

vars == <<stats, lock, pc, kind, args, resp, issued, connects_done>>

NoBody == [none |-> TRUE]

Stats0 == [total_connections |-> 0, total_syncs |-> 0,
           total_transforms |-> 0, bytes_relayed |-> 0]

Routes == {"health", "connect", "sync", "transform", "mesh", "protocols", "stats"}

\* ------------------------------------------------------------- requests
RECURSIVE SeqsUpTo(_, _)
SeqsUpTo(S, n) ==
    IF n = 0 THEN {<< >>}
    ELSE LET shorter == SeqsUpTo(S, n - 1)
         IN  shorter \cup {Append(q, x) : q \in shorter, x \in S}

ConnectRequest == [device_id : {"dev-1"},
                   protocol : {<< >>, <<"mqtt-bridge">>},
                   region : {<< >>, <<"eu-west-1">>}]
SyncRequest == [connection_id : Uuids]
TransformRequest == [source_protocol : RequestProtocols,
                     target_protocol : RequestProtocols,
                     payload : {"payload"}]
MeshRequest(n) == [devices : SeqsUpTo(DeviceIds, n), topology : RequestTopologies]

\* the mesh requests sent while other requests are in flight
GatewayMeshes == {[devices |-> <<"A">>, topology |-> << >>],
                  [devices |-> <<"A", "B">>, topology |-> <<"ring">>]}

\* the bodies the Json extractor of each route can yield
Bodies(route) ==
    CASE route = "connect" -> ConnectRequest
      [] route = "sync" -> SyncRequest
      [] route = "transform" -> TransformRequest
      [] route = "mesh" -> GatewayMeshes
      [] OTHER -> {NoBody}

\* ------------------------------------------------------------- responses
Health(st) == [status |-> "ok", total_ops |-> st.total_connections + st.total_syncs]

ConnectResponse(req, uuid) ==
    LET protocol == unwrap_or_else(req.protocol, DefaultProtocol)
        region == unwrap_or_else(req.region, DefaultRegion)
    IN  [connection_id |-> uuid, device_id |-> req.device_id, protocol |-> protocol,
         region |-> region, endpoint |-> <<EndpointPrefix, region>>,
         status |-> "connected"]

SyncResponse(uuid) ==
    [sync_id |-> uuid, status |-> "synced", objects_synced |-> ObjectsSynced,
     sdf_bytes_transferred |-> SyncBytes]

TransformResponse(req, uuid) ==
    [transform_id |-> uuid, source |-> req.source_protocol,
     target |-> req.target_protocol, output |-> req.payload]

\* variant: the range stops one short (0..count-2)
MeshConnections_short(devices) ==
    LET count == Len(devices)
    IN  IF count >= 2
        THEN [i \in 1..(count - 2) |->
                 [from |-> devices[i], to |-> devices[i + 1],
                  latency_ms |-> BaseLatency + (i - 1) * LatencyStep]]
        ELSE << >>

\* the edge list create_mesh builds: consecutive devices, whatever the topology
MeshConnections(devices) ==
    LET count == Len(devices)
    IN  IF count >= 2
        THEN [i \in 1..(count - 1) |->
                 [from |-> devices[i], to |-> devices[i + 1],
                  latency_ms |-> BaseLatency + (i - 1) * LatencyStep]]
        ELSE << >>

\* variant: devices reports the number of connections
MeshResponse_edges(req, uuid) ==
    [mesh_id |-> uuid, devices |-> Len(MeshConnections(req.devices)),
     topology |-> unwrap_or_else(req.topology, DefaultTopology),
     connections |-> MeshConnections(req.devices), status |-> "established"]

MeshResponse(req, uuid) ==
    [mesh_id |-> uuid, devices |-> Len(req.devices),
     topology |-> unwrap_or_else(req.topology, DefaultTopology),
     connections |-> MeshConnections(req.devices), status |-> "established"]

StatsResponse(st) ==
    [total_connections |-> st.total_connections, total_syncs |-> st.total_syncs,
     total_transforms |-> st.total_transforms, bytes_relayed |-> st.bytes_relayed,
     active_meshes |-> 1]

\* ------------------------------------------------------------- initial state
Init ==
    /\ stats = Stats0
    /\ lock = 0
    /\ pc = [r \in Reqs |-> "idle"]
    /\ kind = [r \in Reqs |-> "none"]
    /\ args = [r \in Reqs |-> NoBody]
    /\ resp = [r \in Reqs |-> NoBody]
    /\ issued = {}
    /\ connects_done = 0

\* ------------------------------------------------------------- mutex
\* Mutex::lock: blocks until the mutex is free
MutexLock(r, at, to) ==
    /\ pc[r] = at
    /\ lock = 0
    /\ lock' = r
    /\ pc' = [pc EXCEPT ![r] = to]

\* ------------------------------------------------------------- router
Mutating == {"connect", "sync", "transform"}
InFlight == Cardinality({q \in Reqs : kind[q] \in Mutating /\ pc[q] \in {"start", "locked"}})
Admitted == stats.total_connections + stats.total_syncs + stats.total_transforms
                + InFlight

\* a request arrives, is routed and its body is deserialized
Route(r) ==
    /\ pc[r] = "idle"
    /\ \E route \in Routes :
          /\ route \in Mutating => Admitted < MaxOps
          /\ kind' = [kind EXCEPT ![r] = route]
          /\ \E body \in Bodies(route) : args' = [args EXCEPT ![r] = body]
    /\ pc' = [pc EXCEPT ![r] = "start"]
    /\ UNCHANGED <<stats, lock, resp, issued, connects_done>>

\* the client goes away before the handler body has started: the task is dropped
Drop(r) ==
    /\ pc[r] = "start"
    /\ pc' = [pc EXCEPT ![r] = "idle"]
    /\ kind' = [kind EXCEPT ![r] = "none"]
    /\ args' = [args EXCEPT ![r] = NoBody]
    /\ UNCHANGED <<stats, lock, resp, issued, connects_done>>

\* the response is written back; a connect response hands out its connection_id
Reply(r) ==
    /\ pc[r] = "done"
    /\ pc' = [pc EXCEPT ![r] = "idle"]
    /\ issued' = IF kind[r] = "connect" THEN issued \cup {resp[r].connection_id}
                 ELSE issued
    /\ connects_done' = IF kind[r] = "connect" THEN connects_done + 1
                        ELSE connects_done
    /\ kind' = [kind EXCEPT ![r] = "none"]
    /\ args' = [args EXCEPT ![r] = NoBody]
    /\ resp' = [resp EXCEPT ![r] = NoBody]
    /\ UNCHANGED <<stats, lock>>

\* ------------------------------------------------------------- handlers
\* health: let st = s.stats.lock().unwrap();
health_lock(r) ==
    /\ kind[r] = "health"
    /\ MutexLock(r, "start", "locked")
    /\ UNCHANGED <<stats, kind, args, resp, issued, connects_done>>

\* variant: health counts itself as a connection
health_read_counted(r) ==
    /\ kind[r] = "health"
    /\ pc[r] = "locked"
    /\ lock = r
    /\ stats' = [stats EXCEPT !.total_connections = @ + 1]
    /\ resp' = [resp EXCEPT ![r] = Health(stats')]
    /\ lock' = 0
    /\ pc' = [pc EXCEPT ![r] = "done"]
    /\ UNCHANGED <<kind, args, issued, connects_done>>

\* health: build Health from the guarded counters; the guard drops on return
health_read(r) ==
    /\ kind[r] = "health"
    /\ pc[r] = "locked"
    /\ lock = r
    /\ resp' = [resp EXCEPT ![r] = Health(stats)]
    /\ lock' = 0
    /\ pc' = [pc EXCEPT ![r] = "done"]
    /\ UNCHANGED <<stats, kind, args, issued, connects_done>>

health(r) == health_lock(r) \/ health_read(r)

\* connect: s.stats.lock().unwrap()
connect_lock(r) ==
    /\ kind[r] = "connect"
    /\ MutexLock(r, "start", "locked")
    /\ UNCHANGED <<stats, kind, args, resp, issued, connects_done>>

\* variant: total_connections = 1 in place of += 1
connect_incr_assign(r) ==
    /\ kind[r] = "connect"
    /\ pc[r] = "locked"
    /\ lock = r
    /\ stats' = [stats EXCEPT !.total_connections = 1]
    /\ lock' = 0
    /\ \E uuid \in Uuids : resp' = [resp EXCEPT ![r] = ConnectResponse(args[r], uuid)]
    /\ pc' = [pc EXCEPT ![r] = "done"]
    /\ UNCHANGED <<kind, args, issued, connects_done>>

\* connect: total_connections += 1; the temporary guard drops; build the response
connect_incr(r) ==
    /\ kind[r] = "connect"
    /\ pc[r] = "locked"
    /\ lock = r
    /\ stats' = [stats EXCEPT !.total_connections = @ + 1]
    /\ lock' = 0
    /\ \E uuid \in Uuids : resp' = [resp EXCEPT ![r] = ConnectResponse(args[r], uuid)]
    /\ pc' = [pc EXCEPT ![r] = "done"]
    /\ UNCHANGED <<kind, args, issued, connects_done>>

connect(r) == connect_lock(r) \/ connect_incr(r)

\* sync_data: let mut st = s.stats.lock().unwrap();
sync_lock(r) ==
    /\ kind[r] = "sync"
    /\ MutexLock(r, "start", "locked")
    /\ UNCHANGED <<stats, kind, args, resp, issued, connects_done>>

\* variant: each counter updated under its own temporary guard
sync_count_unguarded(r) ==
    /\ kind[r] = "sync"
    /\ pc[r] = "locked"
    /\ lock = r
    /\ stats' = [stats EXCEPT !.total_syncs = @ + 1]
    /\ lock' = 0
    /\ pc' = [pc EXCEPT ![r] = "counted"]
    /\ UNCHANGED <<kind, args, resp, issued, connects_done>>

\* sync_data: st.total_syncs += 1;
sync_count(r) ==
    /\ kind[r] = "sync"
    /\ pc[r] = "locked"
    /\ lock = r
    /\ stats' = [stats EXCEPT !.total_syncs = @ + 1]
    /\ pc' = [pc EXCEPT ![r] = "counted"]
    /\ UNCHANGED <<lock, kind, args, resp, issued, connects_done>>

\* sync_data: st.bytes_relayed += bytes; the block ends, the guard drops; respond
sync_relay(r) ==
    /\ kind[r] = "sync"
    /\ pc[r] = "counted"
    /\ lock = r
    /\ stats' = [stats EXCEPT !.bytes_relayed = @ + SyncBytes]
    /\ lock' = 0
    /\ \E uuid \in Uuids : resp' = [resp EXCEPT ![r] = SyncResponse(uuid)]
    /\ pc' = [pc EXCEPT ![r] = "done"]
    /\ UNCHANGED <<kind, args, issued, connects_done>>

sync_data(r) == sync_lock(r) \/ sync_count(r) \/ sync_relay(r)

\* transform: s.stats.lock().unwrap()
transform_lock(r) ==
    /\ kind[r] = "transform"
    /\ MutexLock(r, "start", "locked")
    /\ UNCHANGED <<stats, kind, args, resp, issued, connects_done>>

\* transform: total_transforms += 1; the guard drops; echo the payload
transform_incr(r) ==
    /\ kind[r] = "transform"
    /\ pc[r] = "locked"
    /\ lock = r
    /\ stats' = [stats EXCEPT !.total_transforms = @ + 1]
    /\ lock' = 0
    /\ \E uuid \in Uuids : resp' = [resp EXCEPT ![r] = TransformResponse(args[r], uuid)]
    /\ pc' = [pc EXCEPT ![r] = "done"]
    /\ UNCHANGED <<kind, args, issued, connects_done>>

transform(r) == transform_lock(r) \/ transform_incr(r)

\* create_mesh: never touches the state (_s)
create_mesh(r) ==
    /\ kind[r] = "mesh"
    /\ pc[r] = "start"
    /\ \E uuid \in Uuids : resp' = [resp EXCEPT ![r] = MeshResponse(args[r], uuid)]
    /\ pc' = [pc EXCEPT ![r] = "done"]
    /\ UNCHANGED <<stats, lock, kind, args, issued, connects_done>>

\* protocols: a constant list, no state
protocols(r) ==
    /\ kind[r] = "protocols"
    /\ pc[r] = "start"
    /\ resp' = [resp EXCEPT ![r] = [names |-> protocols_list]]
    /\ pc' = [pc EXCEPT ![r] = "done"]
    /\ UNCHANGED <<stats, lock, kind, args, issued, connects_done>>

\* stats: let st = s.stats.lock().unwrap();
stats_lock(r) ==
    /\ kind[r] = "stats"
    /\ MutexLock(r, "start", "locked")
    /\ UNCHANGED <<stats, kind, args, resp, issued, connects_done>>

\* variant: the counters are drained (mem::take) when reported
stats_read_drain(r) ==
    /\ kind[r] = "stats"
    /\ pc[r] = "locked"
    /\ lock = r
    /\ resp' = [resp EXCEPT ![r] = StatsResponse(stats)]
    /\ stats' = Stats0
    /\ lock' = 0
    /\ pc' = [pc EXCEPT ![r] = "done"]
    /\ UNCHANGED <<kind, args, issued, connects_done>>

\* stats: copy the four counters; the guard drops on return
stats_read(r) ==
    /\ kind[r] = "stats"
    /\ pc[r] = "locked"
    /\ lock = r
    /\ resp' = [resp EXCEPT ![r] = StatsResponse(stats)]
    /\ lock' = 0
    /\ pc' = [pc EXCEPT ![r] = "done"]
    /\ UNCHANGED <<stats, kind, args, issued, connects_done>>

stats_handler(r) == stats_lock(r) \/ stats_read(r)

Next ==
    \E r \in Reqs :
        \/ Route(r)
        \/ Drop(r)
        \/ Reply(r)
        \/ health(r)
        \/ connect(r)
        \/ sync_data(r)
        \/ transform(r)
        \/ create_mesh(r)
        \/ protocols(r)
        \/ stats_handler(r)

Spec == Init /\ [][Next]_vars

\* One mesh request, any device list up to MaxDevices and any topology, with
\* nothing else in flight: create_mesh reads no shared state.
InitMesh ==
    /\ stats = Stats0
    /\ lock = 0
    /\ pc = [r \in Reqs |-> IF r = 1 THEN "start" ELSE "idle"]
    /\ kind = [r \in Reqs |-> IF r = 1 THEN "mesh" ELSE "none"]
    /\ \E body \in MeshRequest(MaxDevices) :
          args = [r \in Reqs |-> IF r = 1 THEN body ELSE NoBody]
    /\ resp = [r \in Reqs |-> NoBody]
    /\ issued = {}
    /\ connects_done = 0

NextMesh == \E r \in Reqs : create_mesh(r) \/ Reply(r)

SpecMesh == InitMesh /\ [][NextMesh]_vars

\* ------------------------------------------------------------- properties
Stepped(r) == pc'[r] # pc[r]
Distinct(devices) == \A i, j \in 1..Len(devices) : devices[i] = devices[j] => i = j
Edges(response) ==
    [i \in 1..Len(response.connections) |->
        <<response.connections[i].from, response.connections[i].to>>]
LineEdges(devices) ==
    IF Len(devices) >= 2
    THEN [i \in 1..(Len(devices) - 1) |-> <<devices[i], devices[i + 1]>>]
    ELSE << >>
MeshDone(r) == kind[r] = "mesh" /\ pc[r] = "done"

\* C1: total_connections equals the number of connect calls whose handler has
\* returned (replied, or with the response waiting to be written), under every
\* interleaving: no increment is lost or duplicated.
C1_ConnectionsCounted ==
    stats.total_connections =
        connects_done + Cardinality({r \in Reqs : kind[r] = "connect" /\ pc[r] = "done"})

C1_Witness ==
    /\ stats.total_connections = 2
    /\ \E r, q \in Reqs : /\ r # q
                          /\ kind[r] = "connect" /\ pc[r] = "done"
                          /\ kind[q] = "connect" /\ pc[q] = "done"

\* C2: no step of a sync call whose connection_id no connect has returned
\* changes total_syncs or bytes_relayed, and the call answers UnknownConnection.
C2_UnknownConnectionRejected ==
    [][\A r \in Reqs :
          (kind[r] = "sync" /\ Stepped(r) /\ args[r].connection_id \notin issued)
          => /\ stats'.total_syncs = stats.total_syncs
             /\ stats'.bytes_relayed = stats.bytes_relayed
             /\ pc'[r] = "done" => resp'[r].status = "UnknownConnection"]_vars

\* C3: no step of a transform call naming an unregistered source or target
\* protocol changes total_transforms, and the call answers UnsupportedProtocol.
C3_UnsupportedProtocolRejected ==
    [][\A r \in Reqs :
          (/\ kind[r] = "transform" /\ Stepped(r)
           /\ \/ args[r].source_protocol \notin ProtocolNames
              \/ args[r].target_protocol \notin ProtocolNames)
          => /\ stats'.total_transforms = stats.total_transforms
             /\ pc'[r] = "done" => resp'[r].status = "UnsupportedProtocol"]_vars

\* C4: no step lowers any of the four counters, and a stats response reports
\* the counters as they are when it is built.
C4_CountersMonotonic ==
    [][/\ stats'.total_connections >= stats.total_connections
       /\ stats'.total_syncs >= stats.total_syncs
       /\ stats'.total_transforms >= stats.total_transforms
       /\ stats'.bytes_relayed >= stats.bytes_relayed
       /\ \A r \in Reqs :
             (kind[r] = "stats" /\ pc[r] = "locked" /\ pc'[r] = "done")
             => /\ resp'[r].total_connections = stats'.total_connections
                /\ resp'[r].total_syncs = stats'.total_syncs
                /\ resp'[r].total_transforms = stats'.total_transforms
                /\ resp'[r].bytes_relayed = stats'.bytes_relayed]_vars

C4_Witness ==
    \E r \in Reqs : /\ kind[r] = "stats" /\ pc[r] = "done"
                    /\ resp[r].total_syncs >= 1
                    /\ stats.total_connections > resp[r].total_connections

\* C5: a ring over n >= 2 devices returns the line edges followed by the
\* closing edge from the last device to the first.
C5_RingClosed ==
    \A r \in Reqs :
        (MeshDone(r) /\ args[r].topology = <<"ring">> /\ Len(args[r].devices) >= 2)
        => Edges(resp[r]) =
              Append(LineEdges(args[r].devices),
                     <<args[r].devices[Len(args[r].devices)], args[r].devices[1]>>)

\* C6: a line over devices d returns exactly the edges (d[i], d[i+1]) in
\* order, and no self-edge when the device ids are pairwise distinct.
C6_LineEdges ==
    \A r \in Reqs :
        (MeshDone(r) /\ args[r].topology = <<"line">>)
        => /\ Edges(resp[r]) = LineEdges(args[r].devices)
           /\ Distinct(args[r].devices)
                 => \A i \in 1..Len(resp[r].connections) :
                       resp[r].connections[i].from # resp[r].connections[i].to

C6_Witness ==
    \E r \in Reqs : /\ MeshDone(r) /\ args[r].topology = <<"line">>
                    /\ Len(args[r].devices) = 3 /\ Distinct(args[r].devices)
                    /\ Len(resp[r].connections) = 2

\* C7: with the topology omitted or full-mesh, every unordered pair of the
\* listed devices is joined by an edge: n*(n-1)/2 edges for n distinct devices.
C7_FullMeshPairs ==
    \A r \in Reqs :
        (MeshDone(r) /\ args[r].topology \in {<< >>, <<"full-mesh">>})
        => LET d == args[r].devices
               n == Len(d)
               joined == {{e[1], e[2]} : e \in {Edges(resp[r])[i] :
                                                 i \in 1..Len(resp[r].connections)}}
           IN  /\ \A i, j \in 1..n : d[i] # d[j] => {d[i], d[j]} \in joined
               /\ Distinct(d) => 2 * Len(resp[r].connections) = n * (n - 1)

\* C8: a single device, under any topology, yields no connections and a
\* devices count of 1.
C8_SingleDevice ==
    \A r \in Reqs :
        (MeshDone(r) /\ Len(args[r].devices) = 1)
        => resp[r].connections = << >> /\ resp[r].devices = 1

C8_Witness ==
    \E r \in Reqs : /\ MeshDone(r) /\ Len(args[r].devices) = 1
                    /\ args[r].topology = <<"ring">>
                    /\ resp[r].status = "established"

\* C9: whenever a health or stats request holds the guard, and in every stats
\* response, bytes_relayed is 4096 times total_syncs.
C9_SyncAtomic ==
    /\ \A r \in Reqs :
          (kind[r] \in {"health", "stats"} /\ pc[r] = "locked")
          => stats.bytes_relayed = SyncBytes * stats.total_syncs
    /\ \A r \in Reqs :
          (kind[r] = "stats" /\ pc[r] = "done")
          => resp[r].bytes_relayed = SyncBytes * resp[r].total_syncs

C9_Witness ==
    \E r, q \in Reqs : /\ kind[r] = "stats" /\ pc[r] = "done"
                       /\ resp[r].total_syncs >= 1
                       /\ kind[q] = "sync" /\ pc[q] = "counted"

\* C10: a step of a health, stats, protocols or mesh request, an arrival, a
\* drop and a reply leave the four counters alone; a connect step changes at
\* most total_connections, a sync step at most total_syncs and bytes_relayed,
\* a transform step at most total_transforms.
C10_Frame ==
    [][/\ stats' # stats => \E r \in Reqs : Stepped(r) /\ pc[r] # "idle"
       /\ \A r \in Reqs :
             Stepped(r)
             => /\ kind[r] \in {"health", "stats", "protocols", "mesh", "none"}
                      => stats' = stats
                /\ pc[r] = "done" => stats' = stats
                /\ kind[r] = "connect"
                      => stats' = [stats EXCEPT
                                      !.total_connections = stats'.total_connections]
                /\ kind[r] = "sync"
                      => stats' = [stats EXCEPT
                                      !.total_syncs = stats'.total_syncs,
                                      !.bytes_relayed = stats'.bytes_relayed]
                /\ kind[r] = "transform"
                      => stats' = [stats EXCEPT
                                      !.total_transforms = stats'.total_transforms]]_vars

C10_Witness ==
    /\ stats.total_transforms >= 1
    /\ \E r, q \in Reqs : /\ kind[r] = "health" /\ pc[r] = "done"
                          /\ resp[r].total_ops >= 1
                          /\ kind[q] = "mesh" /\ pc[q] = "done"

====
